---- MODULE Spec2Model ----
(***************************************************************************)
(* Astra Intelligence chat client: the team message store (useGroupChat),  *)
(* the private chat orchestrator (useChat over useChats) and the           *)
(* visualization state (useVisualization with its two host components).    *)
(*                                                                         *)
(* MainContainer mounts exactly one of GroupChat / ChatContainer, chosen   *)
(* by chatMode; every hook's state belongs to the mounted component, so a  *)
(* behaviour is a behaviour of one mounted component.                      *)
(***************************************************************************)
EXTENDS Integers, Sequences, FiniteSets, TLC

\* ------------------------------------------------------------------ bounds
\* Persisted team records that may exist in one behaviour.
MaxRecords == 3
\* Team records already persisted when the component mounts.
MaxInitRecords == 1
\* Stand-in for the default `limit` of fetchMessages (50 in the source).
FetchLimit == 2
\* fetchMessages calls that may be in flight at once.
MaxFetches == 2
\* Team sends that may be in flight at once.
MaxTeamSends == 2
\* Private sends in one behaviour.
MaxPrivateSends == 2
\* Conversation ids (uuidv4 values) in one behaviour; 1 is a conversation
\* found in the history, the others are created by this session.
MaxConvs == 3
\* fetchConversations calls (outside a send) that may be in flight at once.
MaxConvFetches == 2
\* loadConversation calls that may be in flight at once.
MaxLoads == 1
\* Assistant messages (chat ids) on display that offer a visualization.
MaxVizMsgs == 2
\* generateVisualization calls in one behaviour.
MaxGenerateCalls == 3

VARIABLES
    chatMode,          \* MainContainer.chatMode: which component is mounted
    \* ---- the store (astra_chats rows with mode = 'team'), created_at order
    teamDb,
    nextId,            \* next row id / created_at the store hands out
    pushQ,             \* INSERT notifications not yet delivered to this session
    \* ---- useGroupChat state
    gMessages,         \* messages
    gLoading,          \* loading
    gError,            \* error
    isAstraThinking,
    fetches,           \* fetchMessages calls in flight
    teamSends,         \* sendMessage calls in flight
    pushIgnored,       \* history: the INSERT handler has found an id in the list
    searchQuery,       \* GroupChat: the search box
    searchResults,     \* GroupChat: the rows the search panel lists
    isSearching,       \* GroupChat: the search panel shows its spinner
    searches,          \* searchMessages calls in flight, by query
    isCurrentUserAdmin, \* GroupChat: the users table says this user is an administrator
    deletes,           \* delete requests of handleDeleteMessage in flight, by message id
    usersPending,      \* the users query of GroupChat's mount effect is in flight
    \* ---- the store (astra_chats rows of this user, mode = 'private')
    privDb,
    pNextId,
    \* ---- useChats state (the instance useChat owns)
    currentConversationId,
    currentMessages,
    chatsLoading,      \* loading
    chatsError,        \* error
    nextConv,          \* next value uuidv4() returns
    convFetches,       \* fetchConversations calls in flight (not a send's)
    loads,             \* loadConversation calls in flight
    \* ---- useChat state
    messages,
    isLoading,
    inputValue,        \* the text in the input box
    pSend,             \* the sendMessage call in flight, or idle
    pWebhooks,         \* webhook requests of sendMessage awaiting a response
    sendCount

privVars == <<privDb, pNextId, currentConversationId, currentMessages,
              chatsLoading, chatsError, nextConv, convFetches, loads,
              messages, isLoading, inputValue, pSend, pWebhooks, sendCount>>

teamVars == <<teamDb, nextId, pushQ, gMessages, gLoading, gError,
            isAstraThinking, fetches, teamSends,
            pushIgnored, searchQuery, searchResults, isSearching, searches,
            isCurrentUserAdmin, deletes, usersPending>>

VARIABLES
    \* ---- the displayed assistant messages, by chat id
    hasStoredVisualization,  \* Message.hasStoredVisualization
    \* ---- useVisualization state
    visualizations,
    currentVisualization,
    messageToHighlight,
    \* ---- ChatContainer state
    visualizationStates,
    \* ---- calls and timers in flight
    generations,       \* generateVisualization calls awaiting the model
    generateCalls,     \* generateVisualization calls made so far
    completionTimers,  \* setTimeout(..., 100) of handleCreateVisualization
    viewFetches,       \* fetchVisualization queries of handleViewVisualization
    lastOutcome,       \* how the latest settled generation of a message ended
    highlightTimers,   \* hideVisualization timers pending, by captured messageToHighlight
    highlighted        \* messages whose element carries the class message-highlight

vizVars == <<hasStoredVisualization, visualizations, currentVisualization,
             messageToHighlight, visualizationStates, generations,
             generateCalls, completionTimers, viewFetches, lastOutcome,
             highlightTimers, highlighted>>

VARIABLES
    \* ---- the messages MessageBubble renders
    bubbles            \* per message: id, text (its lines, by length), isExpanded

bubbleVars == <<bubbles>>

VARIABLES
    \* ---- GroupChat: the chat summary
    isSummarizing,     \* the summary button shows its spinner
    summaryResult,     \* what the summary panel shows
    summary,           \* the handleSummaryRequest call in flight, or idle
    summaries,         \* handleSummaryRequest calls made so far
    switchedTo         \* the argument of the latest onSwitchToPrivateChat call

summaryVars == <<isSummarizing, summaryResult, summary, summaries, switchedTo>>

VARIABLES
    \* ---- an assistant message and what the two components render for it
    assistantText,     \* the message text: its lines, each a sequence of characters
    bubbleBlocks,      \* MessageBubble: the elements formatMessageText returned
    groupBlocks        \* GroupMessage: the elements formatMessageContent returned

formatVars == <<assistantText, bubbleBlocks, groupBlocks>>

searchVars == <<searchQuery, searchResults, isSearching, searches>>

deleteVars == <<isCurrentUserAdmin, deletes, usersPending>>

notTeamVars == <<privVars, vizVars, bubbleVars, formatVars, summaryVars>>

notPrivVars == <<teamVars, vizVars, bubbleVars, formatVars, summaryVars>>

notVizVars == <<chatMode, teamVars, privVars, bubbleVars, formatVars, summaryVars>>

vars == <<chatMode, teamVars, privVars, vizVars, bubbleVars, formatVars, summaryVars>>

\* ---------------------------------------------------------------- helpers
Min(a, b) == IF a < b THEN a ELSE b

Take(s, n) == SubSeq(s, 1, Min(n, Len(s)))

RemoveAt(s, i) == SubSeq(s, 1, i - 1) \o SubSeq(s, i + 1, Len(s))

IdsOf(list) == {list[i].id : i \in DOMAIN list}

\* A persisted row as the client sees it (the fields the hooks read).
Row(id, type, isErr) ==
    [id |-> id, created_at |-> id, type |-> type, isErr |-> isErr]

\* ------------------------------------------------------------ message text
\* A text is a sequence of tokens; a token is a word, a run of blanks or a
\* mention "@handle".
Blank == " "
Texts == { <<>>, <<Blank>>, <<"hi">>, <<"@astra", "hi">>, <<"@Astra", "hi">> }

\* content.trim() is empty
IsBlankText(t) == \A i \in DOMAIN t : t[i] = Blank

\* /@(\w+)/g : the handles of the mention tokens, in order, case kept
RECURSIVE parseMentions(_)
parseMentions(t) ==
    IF t = <<>> THEN <<>>
    ELSE LET h == Head(t)
         IN  (IF h \in {"@astra", "@Astra"}
              THEN << SubSeq(h, 2, Len(h)) >> ELSE <<>>)
             \o parseMentions(Tail(t))

\* mentions.includes('astra')
IsAstraMention(t) == \E i \in DOMAIN parseMentions(t) : parseMentions(t)[i] = "astra"

\* ------------------------------------------------------- webhook response
\* A response body: its text (raw), how JSON.parse takes it ("invalid": it
\* throws; "null": the value null; "object": an object), and the object's
\* `output` field if it has one.
NoBody == [raw |-> "", parsed |-> "none", hasOutput |-> FALSE, output |-> ""]

\* A body that is not JSON.
PlainBody == [raw |-> "plain answer", parsed |-> "invalid", hasOutput |-> FALSE, output |-> ""]

Bodies == {
    PlainBody,
    [raw |-> "null", parsed |-> "null", hasOutput |-> FALSE, output |-> ""],
    [raw |-> "{}", parsed |-> "object", hasOutput |-> FALSE, output |-> ""],
    [raw |-> "{output:answer}", parsed |-> "object", hasOutput |-> TRUE, output |-> "answer"],
    [raw |-> "{output:}", parsed |-> "object", hasOutput |-> TRUE, output |-> ""] }

\* if (value): a string is truthy unless it is empty
Truthy(v) == v # ""

\* let messageText = responseText; try { const j = JSON.parse(responseText);
\* if (j.output) messageText = j.output } catch { messageText = responseText }
\* (reading .output of null throws inside the try block).
MessageTextOf(body) ==
    IF body.parsed \in {"invalid", "null"} THEN body.raw
    ELSE IF body.hasOutput /\ Truthy(body.output) THEN body.output
    ELSE body.raw

\* ------------------------------------------------------- team: the store
\* .eq('mode','team').order('created_at', {ascending: true}).limit(limit)
QueryTeam(db, limit) == Take(db, limit)

\* insert(...).select().single() on the team log: the row is stored with the
\* next created_at and its INSERT notification is queued for subscribers.
InsertTeam(type, isErr) ==
    /\ teamDb' = Append(teamDb, Row(nextId, type, isErr))
    /\ pushQ' = pushQ \cup {Row(nextId, type, isErr)}
    /\ nextId' = nextId + 1

\* ------------------------------------------------- team: useGroupChat
\* The INSERT handler without its messageExists test.
ReconcilePushNoExistsTest(prev, r) == Append(prev, r)

\* setMessages(prev => ...) of the postgres_changes INSERT handler
ReconcilePush(prev, r) ==
    IF \E i \in DOMAIN prev : prev[i].id = r.id THEN prev ELSE Append(prev, r)

\* fetchMessages up to its await: setLoading(true), the query goes out.
IssueFetch(fs) == Append(fs, [served |-> FALSE, ok |-> TRUE, snap |-> <<>>])

\* The store evaluates the query of an in-flight fetchMessages (or fails).
FetchServe(i, ok) ==
    /\ i \in DOMAIN fetches
    /\ ~fetches[i].served
    /\ fetches' = [fetches EXCEPT ![i] =
                     [served |-> TRUE, ok |-> ok,
                      snap |-> IF ok THEN QueryTeam(teamDb, FetchLimit) ELSE <<>>]]
    /\ UNCHANGED notTeamVars
    /\ UNCHANGED pushIgnored
    /\ UNCHANGED <<searchVars, deleteVars>>
    /\ UNCHANGED <<chatMode, teamDb, nextId, pushQ, gMessages, gLoading, gError,
                   isAstraThinking, teamSends>>

\* fetchMessages after its await: error -> setError, else setMessages(data);
\* finally setLoading(false).
FetchResolve(i) ==
    /\ i \in DOMAIN fetches
    /\ fetches[i].served
    /\ IF fetches[i].ok
       THEN gMessages' = fetches[i].snap /\ gError' = gError
       ELSE gMessages' = gMessages /\ gError' = "Failed to load messages"
    /\ gLoading' = FALSE
    /\ fetches' = RemoveAt(fetches, i)
    /\ UNCHANGED notTeamVars
    /\ UNCHANGED pushIgnored
    /\ UNCHANGED <<searchVars, deleteVars>>
    /\ UNCHANGED <<chatMode, teamDb, nextId, pushQ, isAstraThinking, teamSends>>

\* The real-time channel delivers one INSERT notification. Notifications
\* follow commit order, which need not be created_at order (created_at is
\* set when a transaction starts), so any queued notification may be next.
PushDeliver(r) ==
    /\ r \in pushQ
    /\ pushQ' = pushQ \ {r}
    /\ gMessages' = ReconcilePush(gMessages, r)
    /\ UNCHANGED notTeamVars
    /\ pushIgnored' = (pushIgnored \/ r.id \in IdsOf(gMessages))
    /\ UNCHANGED <<searchVars, deleteVars>>
    /\ UNCHANGED <<chatMode, teamDb, nextId, gLoading, gError, isAstraThinking,
                   fetches, teamSends>>

\* The inserts the sends in flight have yet to make.
RECURSIVE PendingInserts(_)
PendingInserts(sends) ==
    IF sends = <<>> THEN 0
    ELSE (IF Head(sends).pc = "logUser" THEN 1 ELSE 0)
         + (IF Head(sends).astra THEN 1 ELSE 0)
         + PendingInserts(Tail(sends))

\* Another session persists a team message.
OtherInsert ==
    /\ chatMode = "team"
    /\ nextId + PendingInserts(teamSends) <= MaxRecords
    /\ InsertTeam("user", FALSE)
    /\ UNCHANGED notTeamVars
    /\ UNCHANGED pushIgnored
    /\ UNCHANGED <<searchVars, deleteVars>>
    /\ UNCHANGED <<chatMode, gMessages, gLoading, gError, isAstraThinking,
                   fetches, teamSends>>

\* The busy flag a send leaves behind: its finally block writes false
\* whatever the outcome of the try block was.
BusyAfterSuccessOnly(ok) == ~ok

BusyAfterFinally(ok) == FALSE

\* ---- sendMessage (useGroupChat)
\* The input of GroupChat is disabled while `loading` is true. Up to the
\* first await: blank content is rejected; the mentions decide whether the
\* assistant is asked.
TeamSendStart(content) ==
    /\ chatMode = "team"
    /\ ~gLoading
    /\ ~IsBlankText(content)
    /\ Len(teamSends) < MaxTeamSends
    /\ nextId + PendingInserts(teamSends)
          + (IF IsAstraMention(content) THEN 1 ELSE 0) <= MaxRecords
    /\ teamSends' = Append(teamSends, [pc |-> "logUser",
                                       astra |-> IsAstraMention(content),
                                       mentions |-> parseMentions(content),
                                       astraResponse |-> ""])
    /\ UNCHANGED notTeamVars
    /\ UNCHANGED pushIgnored
    /\ UNCHANGED <<searchVars, deleteVars>>
    /\ UNCHANGED <<chatMode, teamDb, nextId, pushQ, gMessages, gLoading, gError,
                   isAstraThinking, fetches>>

\* What sendMessage does once its last logChatMessage has returned:
\* await fetchMessages().
TeamSendRefresh(i) ==
    /\ Len(fetches) < MaxFetches
    /\ teamSends' = RemoveAt(teamSends, i)
    /\ fetches' = IssueFetch(fetches)
    /\ gLoading' = TRUE

\* logChatMessage(user message) returns: the row is stored (ok) or the insert
\* failed and null came back. Then the assistant is asked, or the list is
\* refreshed.
TeamLogUser(i, ok) ==
    /\ i \in DOMAIN teamSends
    /\ teamSends[i].pc = "logUser"
    /\ IF ok THEN InsertTeam("user", FALSE)
             ELSE UNCHANGED <<teamDb, nextId, pushQ>>
    /\ IF teamSends[i].astra
       THEN /\ isAstraThinking' = TRUE
            /\ teamSends' = [teamSends EXCEPT ![i].pc = "webhook"]
            /\ UNCHANGED <<fetches, gLoading>>
       ELSE /\ TeamSendRefresh(i)
            /\ UNCHANGED isAstraThinking
    /\ UNCHANGED notTeamVars
    /\ UNCHANGED pushIgnored
    /\ UNCHANGED <<searchVars, deleteVars>>
    /\ UNCHANGED <<chatMode, gMessages, gError>>

\* fetch(WEBHOOK_URL) settles: a success body, which is read and parsed, or
\* a rejection / !response.ok.
TeamWebhook(i, ok, body) ==
    /\ i \in DOMAIN teamSends
    /\ teamSends[i].pc = "webhook"
    /\ teamSends' = [teamSends EXCEPT
                       ![i].pc = IF ok THEN "logAstra" ELSE "logError",
                       ![i].astraResponse = IF ok THEN MessageTextOf(body) ELSE ""]
    /\ UNCHANGED notTeamVars
    /\ UNCHANGED pushIgnored
    /\ UNCHANGED <<searchVars, deleteVars>>
    /\ UNCHANGED <<chatMode, teamDb, nextId, pushQ, gMessages, gLoading, gError,
                   isAstraThinking, fetches>>

\* logChatMessage(assistant answer | apology) returns; finally
\* setIsAstraThinking(false); then the list is refreshed.
TeamLogAstra(i, ok) ==
    /\ i \in DOMAIN teamSends
    /\ teamSends[i].pc \in {"logAstra", "logError"}
    /\ IF ok THEN InsertTeam("astra", teamSends[i].pc = "logError")
             ELSE UNCHANGED <<teamDb, nextId, pushQ>>
    /\ isAstraThinking' = BusyAfterFinally(teamSends[i].pc = "logAstra" /\ ok)
    /\ TeamSendRefresh(i)
    /\ UNCHANGED notTeamVars
    /\ UNCHANGED pushIgnored
    /\ UNCHANGED <<searchVars, deleteVars>>
    /\ UNCHANGED <<chatMode, gMessages, gError>>


\* ------------------------------------------------ team: search
\* The search terms typed. Every user message of the model reads "hi" or
\* "@astra hi", so the term "hi" matches the user rows; "zz" matches no row.
Queries == {"hi", "zz", Blank}

\* .or(`message.ilike.%${query}%,user_name.ilike.%${query}%`)
Matches(r, q) == q = "hi" /\ r.type = "user"

RECURSIVE SelectMatching(_, _)
SelectMatching(db, q) ==
    IF db = <<>> THEN <<>>
    ELSE (IF Matches(Head(db), q) THEN <<Head(db)>> ELSE <<>>)
         \o SelectMatching(Tail(db), q)

Reverse(s) == [i \in DOMAIN s |-> s[Len(s) + 1 - i]]

SearchLimit == 100

\* What searchMessages returns: the matching rows, newest first, at most
\* SearchLimit of them; the empty list when the store reports an error or
\* the call throws.
SearchReturn(db, q, ok) ==
    IF ok THEN Take(Reverse(SelectMatching(db, q)), SearchLimit) ELSE <<>>

InitSearch ==
    /\ searchQuery = ""
    /\ searchResults = <<>>
    /\ isSearching = FALSE
    /\ searches = {}

\* GroupChat.handleSearch up to its await: the box takes the text; a blank
\* query empties the results, any other starts searchMessages.
HandleSearch(q) ==
    /\ chatMode = "team"
    /\ searchQuery' = q
    /\ IF q = Blank
       THEN searchResults' = <<>> /\ UNCHANGED <<isSearching, searches>>
       ELSE /\ q \notin searches
            /\ isSearching' = TRUE
            /\ searches' = searches \cup {q}
            /\ UNCHANGED searchResults
    /\ UNCHANGED <<teamDb, nextId, pushQ, gMessages, gLoading, gError,
                   isAstraThinking, fetches, teamSends, pushIgnored>>
    /\ UNCHANGED deleteVars
    /\ UNCHANGED <<chatMode, notTeamVars>>

\* searchMessages settles and handleSearch goes on: setSearchResults(results),
\* setIsSearching(false).
SearchSettles(q, ok) ==
    /\ q \in searches
    /\ searches' = searches \ {q}
    /\ searchResults' = SearchReturn(teamDb, q, ok)
    /\ isSearching' = FALSE
    /\ UNCHANGED searchQuery
    /\ UNCHANGED <<teamDb, nextId, pushQ, gMessages, gLoading, gError,
                   isAstraThinking, fetches, teamSends, pushIgnored>>
    /\ UNCHANGED deleteVars
    /\ UNCHANGED <<chatMode, notTeamVars>>

\* ------------------------------------------------ team: delete
InitDelete(pending) ==
    /\ isCurrentUserAdmin = FALSE
    /\ deletes = {}
    /\ usersPending = pending

\* The users query of GroupChat's mount effect settles:
\* setIsCurrentUserAdmin(currentUser.is_admin || false).
UsersLoaded(isAdmin) ==
    /\ chatMode = "team"
    /\ usersPending
    /\ usersPending' = FALSE
    /\ isCurrentUserAdmin' = isAdmin
    /\ UNCHANGED deletes
    /\ UNCHANGED <<teamDb, nextId, pushQ, gMessages, gLoading, gError,
                   isAstraThinking, fetches, teamSends, pushIgnored>>
    /\ UNCHANGED searchVars
    /\ UNCHANGED <<chatMode, notTeamVars>>

\* .delete().eq('id', messageId).eq('mode', 'team')
DeleteRow(db, id) == SelectSeq(db, LAMBDA r : r.id # id)

\* GroupChat.handleDeleteMessage(messageId) up to its await, for a message
\* of the list: without the administrator flag it returns at once, else the
\* delete is sent to the store.
HandleDeleteMessage(id) ==
    /\ chatMode = "team"
    /\ id \in IdsOf(gMessages)
    /\ IF ~isCurrentUserAdmin
       THEN UNCHANGED deletes
       ELSE /\ id \notin deletes
            /\ deletes' = deletes \cup {id}
    /\ UNCHANGED <<isCurrentUserAdmin, usersPending>>
    /\ UNCHANGED <<teamDb, nextId, pushQ, gMessages, gLoading, gError,
                   isAstraThinking, fetches, teamSends, pushIgnored>>
    /\ UNCHANGED searchVars
    /\ UNCHANGED <<chatMode, notTeamVars>>

\* The delete settles. ok: the row is gone and await fetchMessages() starts;
\* otherwise an alert and nothing else.
DeleteSettles(id, ok) ==
    /\ id \in deletes
    /\ deletes' = deletes \ {id}
    /\ IF ok
       THEN /\ Len(fetches) < MaxFetches
            /\ teamDb' = DeleteRow(teamDb, id)
            /\ fetches' = IssueFetch(fetches)
            /\ gLoading' = TRUE
       ELSE UNCHANGED <<teamDb, fetches, gLoading>>
    /\ UNCHANGED <<isCurrentUserAdmin, usersPending>>
    /\ UNCHANGED <<nextId, pushQ, gMessages, gError, isAstraThinking,
                   teamSends, pushIgnored>>
    /\ UNCHANGED searchVars
    /\ UNCHANGED <<chatMode, notTeamVars>>

\* ------------------------------------------------ private: the store
NoConv == 0

\* A persisted private row: `send` names the send whose text it carries.
PrivRow(id, conv, isUser, send) ==
    [id |-> id, conv |-> conv, isUser |-> isUser, send |-> send, created_at |-> id]

\* .eq('conversation_id', conversationId).order('created_at', {ascending: true})
RECURSIVE QueryConversation(_, _)
QueryConversation(db, conv) ==
    IF db = <<>> THEN <<>>
    ELSE (IF Head(db).conv = conv THEN <<Head(db)>> ELSE <<>>)
         \o QueryConversation(Tail(db), conv)

\* ------------------------------------------------ private: useChat
\* The messages useChat shows.
Welcome == [id |-> [src |-> "welcome", n |-> 0, kind |-> "welcome"],
            kind |-> "welcome", send |-> 0, chatId |-> 0]

\* `${messageId}-user`, `${messageId}-astra`, `${messageId}-error`
Optimistic(kind, s) == [id |-> [src |-> "opt", n |-> s, kind |-> kind],
                        kind |-> kind, send |-> s, chatId |-> 0]

\* `${dbMessage.id}-user` / `${dbMessage.id}-astra`, chatId: dbMessage.id
FromRow(r) ==
    LET kind == IF r.isUser THEN "user" ELSE "astra"
    IN  [id |-> [src |-> "db", n |-> r.id, kind |-> kind],
         kind |-> kind, send |-> r.send, chatId |-> r.id]

UiMessages(cm) == [i \in DOMAIN cm |-> FromRow(cm[i])]

\* The effect "convert database messages to UI messages", run after a render
\* in which currentMessages, currentConversationId or chatsLoading changed.
ConvertEffect(msgs, cm, cid, loading) ==
    IF Len(cm) > 0 THEN UiMessages(cm)
    ELSE IF cid # NoConv /\ ~loading THEN <<Welcome>>
    ELSE msgs

\* The same effect when only chatsLoading may have changed.
OnLoadingChange(msgs, cm, cid, old, new) ==
    IF old # new THEN ConvertEffect(msgs, cm, cid, new) ELSE msgs

IdleSend == [pc |-> "idle", send |-> 0, conv |-> NoConv, userLogged |-> FALSE,
             responseText |-> NoBody, messageText |-> ""]

\* fetchConversations (called by the useChats effect on mount and whenever
\* currentConversationId changes) settles: setLoading(false) in its finally.
ConvFetchDone(ok) ==
    /\ chatMode = "private"
    /\ convFetches > 0
    /\ convFetches' = convFetches - 1
    /\ chatsLoading' = FALSE
    /\ chatsError' = IF ok THEN chatsError ELSE "Failed to load conversations"
    /\ messages' = OnLoadingChange(messages, currentMessages,
                                   currentConversationId, chatsLoading, FALSE)
    /\ UNCHANGED <<privDb, pNextId, currentConversationId, currentMessages,
                   nextConv, loads, isLoading, pSend, sendCount>>
    /\ UNCHANGED <<inputValue, pWebhooks>>
    /\ UNCHANGED <<chatMode, notPrivVars>>

\* sendMessage with only the first half of its test.
SendRejectedBlankOnly(text, loading) == IsBlankText(text)

\* sendMessage: if (!text.trim() || isLoading) return;
SendRejected(text, loading) == IsBlankText(text) \/ loading

\* sendMessage from its test up to its await of fetch(WEBHOOK_URL), for a
\* text it accepts: the user message is appended, the box cleared, the
\* loading flag set and the webhook request sent.
SendAccepted(text) ==
    /\ chatMode = "private"
    /\ ~SendRejected(text, isLoading)
    /\ sendCount < MaxPrivateSends
    /\ sendCount' = sendCount + 1
    /\ messages' = Append(messages, Optimistic("user", sendCount + 1))
    /\ inputValue' = <<>>
    /\ isLoading' = TRUE
    /\ pWebhooks' = pWebhooks + 1
    /\ pSend' = [pc |-> "webhook", send |-> sendCount + 1,
                 conv |-> currentConversationId, userLogged |-> FALSE,
                 responseText |-> NoBody, messageText |-> ""]
    /\ UNCHANGED <<privDb, pNextId, currentConversationId, currentMessages,
                   chatsLoading, chatsError, nextConv, convFetches, loads>>
    /\ UNCHANGED <<chatMode, notPrivVars>>

\* The user types a text and sends it, and sendMessage accepts it.
PrivSendStart(text) == SendAccepted(text)

\* ChatInput onChange: the user edits the box.
TypeInput(text) ==
    /\ chatMode = "private"
    /\ inputValue' = text
    /\ UNCHANGED <<privDb, pNextId, currentConversationId, currentMessages,
                   chatsLoading, chatsError, nextConv, convFetches, loads,
                   messages, isLoading, pSend, pWebhooks, sendCount>>
    /\ UNCHANGED <<chatMode, notPrivVars>>

\* ChatInput calls onSend(value): sendMessage(inputValue), which returns at
\* once when it rejects the text.
PrivSubmit ==
    /\ chatMode = "private"
    /\ IF SendRejected(inputValue, isLoading)
       THEN UNCHANGED vars
       ELSE SendAccepted(inputValue)

\* The webhook call settles. ok: the body is read and parsed, the answer is
\* shown and logging starts. Otherwise (rejection, or !response.ok) the catch
\* block appends one error message and the finally block clears isLoading.
PrivWebhook(ok, body) ==
    /\ pSend.pc = "webhook"
    /\ IF ok
       THEN /\ messages' = Append(messages, Optimistic("astra", pSend.send))
            /\ pSend' = [pSend EXCEPT !.pc = "logUser",
                                      !.responseText = body,
                                      !.messageText = MessageTextOf(body)]
            /\ UNCHANGED isLoading
       ELSE /\ messages' = Append(messages, Optimistic("error", pSend.send))
            /\ pSend' = IdleSend
            /\ isLoading' = BusyAfterFinally(FALSE)
    /\ UNCHANGED <<privDb, pNextId, currentConversationId, currentMessages,
                   chatsLoading, chatsError, nextConv, convFetches, loads,
                   sendCount>>
    /\ pWebhooks' = pWebhooks - 1
    /\ UNCHANGED inputValue
    /\ UNCHANGED <<chatMode, notPrivVars>>

\* What sendMessage does after its last logChatMessage returned chatId (0 for
\* null): the optimistic answer gets the chatId; finally setIsLoading(false).
SetChatId(msgs, s, chatId) ==
    IF chatId = 0 THEN msgs
    ELSE [i \in DOMAIN msgs |->
            IF msgs[i].id = Optimistic("astra", s).id
            THEN [msgs[i] EXCEPT !.chatId = chatId] ELSE msgs[i]]

\* The insert of logChatMessage settles (useChats.logChatMessage, called
\* with the conversation id sendMessage captured). ok: the row is stored and,
\* the captured id being the id logChatMessage itself captured, appended to
\* currentMessages; then fetchConversations starts. Not ok: setError and
\* null is returned.
PrivLogInsert(ok) ==
    /\ pSend.pc \in {"logUser", "logAstra"}
    /\ LET isUser == pSend.pc = "logUser"
           row == PrivRow(pNextId, pSend.conv, isUser, pSend.send)
           cm2 == Append(currentMessages, row)
       IN  IF ok
           THEN /\ privDb' = Append(privDb, row)
                /\ pNextId' = pNextId + 1
                /\ currentMessages' = cm2
                /\ chatsLoading' = TRUE
                /\ messages' = ConvertEffect(messages, cm2,
                                             currentConversationId, chatsLoading)
                /\ pSend' = [pSend EXCEPT
                               !.pc = IF isUser THEN "refreshUser" ELSE "refreshAstra",
                               !.userLogged = IF isUser THEN TRUE ELSE @]
                /\ UNCHANGED <<chatsError, isLoading>>
           ELSE /\ chatsError' = "Failed to save chat message"
                /\ IF isUser
                   THEN pSend' = [pSend EXCEPT !.pc = "logAstra"]
                        /\ UNCHANGED isLoading
                   ELSE pSend' = IdleSend /\ isLoading' = BusyAfterFinally(FALSE)
                /\ UNCHANGED <<privDb, pNextId, currentMessages, chatsLoading,
                               messages>>
    /\ UNCHANGED <<currentConversationId, nextConv, convFetches, loads, sendCount>>
    /\ UNCHANGED <<inputValue, pWebhooks>>
    /\ UNCHANGED <<chatMode, notPrivVars>>

\* The fetchConversations that logChatMessage awaits settles; logChatMessage
\* returns the row id and sendMessage goes on.
PrivLogRefreshed ==
    /\ pSend.pc \in {"refreshUser", "refreshAstra"}
    /\ chatsLoading' = FALSE
    /\ LET shown == OnLoadingChange(messages, currentMessages,
                                    currentConversationId, chatsLoading, FALSE)
       IN  IF pSend.pc = "refreshUser"
           THEN /\ messages' = shown
                /\ pSend' = [pSend EXCEPT !.pc = "logAstra"]
                /\ UNCHANGED isLoading
           ELSE /\ messages' = SetChatId(shown, pSend.send, pNextId - 1)
                /\ pSend' = IdleSend
                /\ isLoading' = BusyAfterFinally(TRUE)
    /\ UNCHANGED <<privDb, pNextId, currentConversationId, currentMessages,
                   chatsError, nextConv, convFetches, loads, sendCount>>
    /\ UNCHANGED <<inputValue, pWebhooks>>
    /\ UNCHANGED <<chatMode, notPrivVars>>

\* startNewConversation: a fresh id, an empty list; the id change makes the
\* useChats effect call fetchConversations.
StartNewConversation ==
    /\ chatMode = "private"
    /\ nextConv <= MaxConvs
    /\ convFetches < MaxConvFetches
    /\ currentConversationId' = nextConv
    /\ nextConv' = nextConv + 1
    /\ currentMessages' = <<>>
    /\ messages' = ConvertEffect(messages, <<>>, nextConv, chatsLoading)
    /\ chatsLoading' = TRUE
    /\ convFetches' = convFetches + 1
    /\ UNCHANGED <<privDb, pNextId, chatsError, loads, isLoading, pSend, sendCount>>
    /\ UNCHANGED <<inputValue, pWebhooks>>
    /\ UNCHANGED <<chatMode, notPrivVars>>

\* loadConversation up to its await: nothing when the conversation is
\* already the loaded one; else setLoading(true), the list is cleared, the
\* id is set and the query goes out.
LoadConversation(c) ==
    /\ chatMode = "private"
    /\ ~(c = currentConversationId /\ Len(currentMessages) > 0)
    /\ Len(loads) < MaxLoads
    /\ c # currentConversationId => convFetches < MaxConvFetches
    /\ loads' = Append(loads, [conv |-> c, before |-> currentMessages,
                               served |-> FALSE, outcome |-> "data", rows |-> <<>>])
    /\ chatsLoading' = TRUE
    /\ currentMessages' = <<>>
    /\ currentConversationId' = c
    /\ messages' = ConvertEffect(messages, <<>>, c, TRUE)
    /\ convFetches' = IF c # currentConversationId THEN convFetches + 1
                                                   ELSE convFetches
    /\ UNCHANGED <<privDb, pNextId, chatsError, nextConv, isLoading, pSend,
                   sendCount>>
    /\ UNCHANGED <<inputValue, pWebhooks>>
    /\ UNCHANGED <<chatMode, notPrivVars>>

\* The store answers the query of a loadConversation: rows, an error
\* result, or the call throws.
LoadServe(i, outcome) ==
    /\ i \in DOMAIN loads
    /\ ~loads[i].served
    /\ loads' = [loads EXCEPT ![i].served = TRUE, ![i].outcome = outcome,
                   ![i].rows = IF outcome = "data"
                               THEN QueryConversation(privDb, loads[i].conv)
                               ELSE <<>>]
    /\ UNCHANGED <<privDb, pNextId, currentConversationId, currentMessages,
                   chatsLoading, chatsError, nextConv, convFetches, messages,
                   isLoading, pSend, sendCount>>
    /\ UNCHANGED <<inputValue, pWebhooks>>
    /\ UNCHANGED <<chatMode, notPrivVars>>

\* loadConversation after its await.
LoadResolve(i) ==
    /\ i \in DOMAIN loads
    /\ loads[i].served
    /\ loads' = RemoveAt(loads, i)
    /\ CASE loads[i].outcome = "data" ->
              /\ currentMessages' = loads[i].rows
              /\ chatsLoading' = FALSE
              /\ messages' = ConvertEffect(messages, loads[i].rows,
                                           currentConversationId, FALSE)
              /\ UNCHANGED chatsError
         [] loads[i].outcome = "error" ->
              /\ chatsError' = "Failed to load conversation"
              /\ UNCHANGED <<currentMessages, chatsLoading, messages>>
         [] loads[i].outcome = "throw" ->
              /\ chatsError' = "Failed to load conversation"
              /\ chatsLoading' = FALSE
              /\ messages' = OnLoadingChange(messages, currentMessages,
                                 currentConversationId, chatsLoading, FALSE)
              /\ UNCHANGED currentMessages
    /\ UNCHANGED <<privDb, pNextId, currentConversationId, nextConv, convFetches,
                   isLoading, pSend, sendCount>>
    /\ UNCHANGED <<inputValue, pWebhooks>>
    /\ UNCHANGED <<chatMode, notPrivVars>>


\* ------------------------------------------------ team: the chat summary
\* GroupChat owns a useChats instance of its own (const { logChatMessage } =
\* useChats()); while GroupChat is mounted the useChats variables above are
\* the state of that instance.
MaxSummaries == 2

\* Row ids and conversation ids are uuids drawn independently of each other:
\* the conversation id whose value is that of row id `id`.
RowIdAsConversation(id) == MaxConvs + id

IdleSummary == [pc |-> "idle", conv |-> NoConv, captured |-> NoConv,
                conversationId |-> NoConv, requestRow |-> 0, responseRow |-> 0]

InitSummary ==
    /\ isSummarizing = FALSE
    /\ summaryResult = "none"
    /\ summary = IdleSummary
    /\ summaries = 0
    /\ switchedTo = NoConv

\* The fetchConversations of the useChats effect (run on mount and whenever
\* currentConversationId changes) settles in GroupChat's instance.
SummaryChatsFetchDone(ok) ==
    /\ chatMode = "team"
    /\ convFetches > 0
    /\ convFetches' = convFetches - 1
    /\ chatsLoading' = FALSE
    /\ chatsError' = IF ok THEN chatsError ELSE "Failed to load conversations"
    /\ UNCHANGED <<privDb, pNextId, currentConversationId, currentMessages,
                   nextConv, loads, messages, isLoading, inputValue, pSend,
                   pWebhooks, sendCount>>
    /\ UNCHANGED <<chatMode, teamVars, vizVars, bubbleVars, formatVars, summaryVars>>

\* handleSummaryRequest up to its first await. The button is disabled
\* while isSummarizing; once onSwitchToPrivateChat has been called the parent
\* shows the private chat and this component takes no further request.
HandleSummaryRequest ==
    /\ chatMode = "team"
    /\ ~isSummarizing
    /\ switchedTo = NoConv
    /\ summaries < MaxSummaries
    /\ isSummarizing' = TRUE
    /\ summaryResult' = "none"
    /\ summary' = [IdleSummary EXCEPT !.pc = "fetch"]
    /\ summaries' = summaries + 1
    /\ UNCHANGED switchedTo
    /\ UNCHANGED <<chatMode, teamVars, privVars, vizVars, bubbleVars, formatVars>>

\* The catch and finally blocks of handleSummaryRequest.
SummaryFails ==
    /\ summaryResult' = "error"
    /\ isSummarizing' = FALSE
    /\ summary' = [summary EXCEPT !.pc = "idle"]
    /\ UNCHANGED <<summaries, switchedTo>>
    /\ UNCHANGED privVars

\* The query for the team messages of the period settles (all stored rows
\* lie within the period): an error throws, no rows end the request with a
\* notice, else the model is asked for the summary.
SummaryFetched(ok) ==
    /\ summary.pc = "fetch"
    /\ IF ~ok THEN SummaryFails
       ELSE IF teamDb = <<>>
       THEN /\ summaryResult' = "empty"
            /\ isSummarizing' = FALSE
            /\ summary' = [summary EXCEPT !.pc = "idle"]
            /\ UNCHANGED <<summaries, switchedTo>>
            /\ UNCHANGED privVars
       ELSE /\ summary' = [summary EXCEPT !.pc = "generate"]
            /\ UNCHANGED <<isSummarizing, summaryResult, summaries, switchedTo>>
            /\ UNCHANGED privVars
    /\ UNCHANGED <<chatMode, teamVars, vizVars, bubbleVars, formatVars>>

\* logChatMessage up to its insert, called with `conversationId` (NoConv for
\* undefined): conversationId || currentConversationId ||
\* createNewConversation(). handleSummaryRequest does not list logChatMessage
\* among its dependencies, so the currentConversationId its logChatMessage
\* reads is that of the render it was created in: null (the first render)
\* or the present one. createNewConversation sets a fresh id and an empty
\* list, and the id change makes the effect call fetchConversations.
LogChatMessageCalled(s, conversationId, pc, loading) ==
    \E captured \in {NoConv, currentConversationId} :
       LET given == IF conversationId # NoConv THEN conversationId ELSE captured
       IN  IF given # NoConv
           THEN /\ summary' = [s EXCEPT !.pc = pc, !.conv = given,
                                        !.captured = captured]
                /\ chatsLoading' = loading
                /\ UNCHANGED <<currentConversationId, currentMessages,
                               nextConv, convFetches>>
           ELSE /\ nextConv <= MaxConvs
                /\ convFetches < MaxConvFetches
                /\ summary' = [s EXCEPT !.pc = pc, !.conv = nextConv,
                                        !.captured = captured]
                /\ currentConversationId' = nextConv
                /\ currentMessages' = <<>>
                /\ nextConv' = nextConv + 1
                /\ convFetches' = convFetches + 1
                /\ chatsLoading' = TRUE

\* The model answers. Not ok (blocked, truncated, empty): the catch block.
\* ok: the request message is logged with no conversation id.
SummaryGenerated(ok) ==
    /\ summary.pc = "generate"
    /\ IF ok
       THEN /\ LogChatMessageCalled(summary, NoConv, "logRequest", chatsLoading)
            /\ UNCHANGED <<isSummarizing, summaryResult, summaries, switchedTo>>
            /\ UNCHANGED <<privDb, pNextId, chatsError, loads, messages,
                           isLoading, inputValue, pSend, pWebhooks, sendCount>>
       ELSE SummaryFails
    /\ UNCHANGED <<chatMode, teamVars, vizVars, bubbleVars, formatVars>>

\* After the second logChatMessage has returned: `if (conversationId)
\* onSwitchToPrivateChat(conversationId)`, then the finally block.
SummaryFinished(s) ==
    /\ summary' = [s EXCEPT !.pc = "idle"]
    /\ switchedTo' = IF s.conversationId # NoConv THEN s.conversationId
                     ELSE switchedTo
    /\ isSummarizing' = FALSE
    /\ UNCHANGED <<summaryResult, summaries>>

\* The insert of logChatMessage settles. ok: the row is stored under the
\* conversation id the call worked out, appended to currentMessages when that
\* id is the currentConversationId the call reads, and fetchConversations
\* starts. Not ok: setError, null is returned and handleSummaryRequest goes
\* on: after the request to the second logChatMessage, called with
\* `conversationId || undefined`; after the response to the switch.
SummaryLogInsert(ok) ==
    /\ summary.pc \in {"logRequest", "logResponse"}
    /\ LET isUser == summary.pc = "logRequest"
           row == PrivRow(pNextId, summary.conv, isUser, 0)
       IN  IF ok
           THEN /\ privDb' = Append(privDb, row)
                /\ pNextId' = pNextId + 1
                /\ currentMessages' = IF summary.conv = summary.captured
                                      THEN Append(currentMessages, row)
                                      ELSE currentMessages
                /\ chatsLoading' = TRUE
                /\ summary' = IF isUser
                              THEN [summary EXCEPT !.pc = "refreshRequest",
                                                   !.requestRow = row.id]
                              ELSE [summary EXCEPT !.pc = "refreshResponse",
                                                   !.responseRow = row.id]
                /\ UNCHANGED <<chatsError, currentConversationId, nextConv,
                               convFetches>>
                /\ UNCHANGED <<isSummarizing, summaryResult, summaries,
                               switchedTo>>
           ELSE /\ chatsError' = "Failed to save chat message"
                /\ UNCHANGED <<privDb, pNextId>>
                /\ IF isUser
                   THEN /\ LogChatMessageCalled(summary, NoConv, "logResponse",
                                                chatsLoading)
                        /\ UNCHANGED <<isSummarizing, summaryResult, summaries,
                                       switchedTo>>
                   ELSE /\ SummaryFinished(summary)
                        /\ UNCHANGED <<currentConversationId, currentMessages,
                                       nextConv, convFetches, chatsLoading>>
    /\ UNCHANGED <<loads, messages, isLoading, inputValue, pSend, pWebhooks,
                   sendCount>>
    /\ UNCHANGED <<chatMode, teamVars, vizVars, bubbleVars, formatVars>>

\* The fetchConversations that logChatMessage awaits settles and
\* logChatMessage returns data.id, the id of the row it stored. After the
\* request that value is kept as conversationId and passed to the second
\* logChatMessage; after the response handleSummaryRequest switches.
SummaryLogRefreshed ==
    /\ summary.pc \in {"refreshRequest", "refreshResponse"}
    /\ IF summary.pc = "refreshRequest"
       THEN /\ LET returned == RowIdAsConversation(summary.requestRow)
               IN  LogChatMessageCalled(
                       [summary EXCEPT !.conversationId = returned],
                       returned, "logResponse", FALSE)
            /\ UNCHANGED <<isSummarizing, summaryResult, summaries, switchedTo>>
       ELSE /\ SummaryFinished(summary)
            /\ chatsLoading' = FALSE
            /\ UNCHANGED <<currentConversationId, currentMessages, nextConv,
                           convFetches>>
    /\ UNCHANGED <<privDb, pNextId, chatsError, loads, messages, isLoading,
                   inputValue, pSend, pWebhooks, sendCount>>
    /\ UNCHANGED <<chatMode, teamVars, vizVars, bubbleVars, formatVars>>

\* ------------------------------------------------ visualization
VizMsgs == 1..MaxVizMsgs

NoMsg == 0

\* No entry under a message id (undefined in the source).
NoState == [present |-> FALSE, isGenerating |-> FALSE, content |-> "none",
            isVisible |-> FALSE, call |-> 0]

\* { isGenerating: true, content: null }
Generating == [present |-> TRUE, isGenerating |-> TRUE, content |-> "none",
               isVisible |-> FALSE, call |-> 0]

\* { isGenerating: false, content: c, isVisible: false }
Settled(c) == [present |-> TRUE, isGenerating |-> FALSE, content |-> c,
               isVisible |-> FALSE, call |-> 0]

\* The content a generateVisualization call stored: `call` names the call
\* whose model response (or failure) the content is.
SettledBy(c, n) == [Settled(c) EXCEPT !.call = n]

\* setVisualizations(prev => ({ ...prev, [messageId]: st }))
SetEntryDroppingOthers(vs, m, st) == [k \in DOMAIN vs |-> IF k = m THEN st ELSE NoState]

SetEntry(vs, m, st) == [vs EXCEPT ![m] = st]

\* `state?.content` as a condition: a non-empty string.
HasContent(st) == st.content # "none"

\* ChatContainer.getLocalVisualizationState: the local entry if there is
\* one; a private message carries no visualization_data, so null otherwise.
getLocalVisualizationState(m) == visualizationStates[m]

\* The VisualizationView replaces the message list while it is shown.
ViewShown ==
    /\ currentVisualization # NoMsg
    /\ HasContent(visualizations[currentVisualization])

\* VisualizationButton: the label of the main button.
ButtonText(st) ==
    IF st.isGenerating THEN "Generating..."
    ELSE IF HasContent(st) THEN "View Visualization"
    ELSE "Create Visualization"

\* useVisualization.showVisualization
ShowVisualization(m) ==
    /\ messageToHighlight' = m
    /\ currentVisualization' = m
    /\ visualizations' = SetEntry(visualizations, m,
           [visualizations[m] EXCEPT !.present = TRUE, !.isVisible = TRUE])

\* A click that reaches handleCreateVisualization: the main button while it
\* reads "Create Visualization", or the Retry button (shown when there is
\* content and nothing is generating). The handler marks the message as
\* generating and calls generateVisualization, which does the same in the
\* hook and calls the model.
HandleCreateVisualization(m) ==
    /\ chatMode = "private"
    /\ ~ViewShown
    /\ ~getLocalVisualizationState(m).isGenerating
    /\ generateCalls < MaxGenerateCalls
    /\ generateCalls' = generateCalls + 1
    /\ visualizationStates' = SetEntry(visualizationStates, m, Generating)
    /\ visualizations' = SetEntry(visualizations, m, Generating)
    /\ generations' = generations \cup {[m |-> m, n |-> generateCalls + 1]}
    /\ UNCHANGED <<hasStoredVisualization, currentVisualization,
                   messageToHighlight, completionTimers, viewFetches, lastOutcome>>
    /\ UNCHANGED <<highlightTimers, highlighted>>
    /\ UNCHANGED notVizVars

\* The model call of generateVisualization settles. The hook stores the
\* page, or - in its catch block - the failure text, as content and does not
\* rethrow; handleCreateVisualization then arms its 100 ms timer.
GenerationSettles(g, ok) ==
    /\ g \in generations
    /\ generations' = generations \ {g}
    /\ visualizations' = SetEntry(visualizations, g.m,
           SettledBy(IF ok THEN "html" ELSE "failureHtml", g.n))
    /\ completionTimers' = completionTimers \cup {g}
    /\ lastOutcome' = [lastOutcome EXCEPT ![g.m] = IF ok THEN "ok" ELSE "failed"]
    /\ UNCHANGED <<hasStoredVisualization, currentVisualization,
                   messageToHighlight, visualizationStates, generateCalls,
                   viewFetches>>
    /\ UNCHANGED <<highlightTimers, highlighted>>
    /\ UNCHANGED notVizVars

\* The 100 ms timer of handleCreateVisualization fires.
CompletionTimerFires(t) ==
    /\ t \in completionTimers
    /\ completionTimers' = completionTimers \ {t}
    /\ visualizationStates' = SetEntry(visualizationStates, t.m,
                                        Settled("generated"))
    /\ UNCHANGED <<hasStoredVisualization, visualizations, currentVisualization,
                   messageToHighlight, generations, generateCalls, viewFetches,
                   lastOutcome>>
    /\ UNCHANGED <<highlightTimers, highlighted>>
    /\ UNCHANGED notVizVars

\* A click on the main button while it reads "View Visualization":
\* handleViewVisualization. A message flagged as having a stored
\* visualization starts a query; otherwise the hook's content, if any, is
\* shown.
HandleViewVisualization(m) ==
    /\ chatMode = "private"
    /\ ~ViewShown
    /\ ButtonText(getLocalVisualizationState(m)) = "View Visualization"
    /\ IF hasStoredVisualization[m]
       THEN /\ m \notin viewFetches
            /\ viewFetches' = viewFetches \cup {m}
            /\ UNCHANGED <<visualizations, currentVisualization, messageToHighlight>>
       ELSE /\ HasContent(visualizations[m])
            /\ ShowVisualization(m)
            /\ UNCHANGED viewFetches
    /\ UNCHANGED <<hasStoredVisualization, visualizationStates, generations,
                   generateCalls, completionTimers, lastOutcome>>
    /\ UNCHANGED <<highlightTimers, highlighted>>
    /\ UNCHANGED notVizVars

\* The query of handleViewVisualization settles: with stored data the local
\* entry is overwritten and the visualization shown; with an error or no
\* data nothing happens.
ViewFetchSettles(m, hasData) ==
    /\ m \in viewFetches
    /\ viewFetches' = viewFetches \ {m}
    /\ IF hasData
       THEN /\ visualizationStates' = SetEntry(visualizationStates, m,
                                                Settled("stored"))
            /\ ShowVisualization(m)
       ELSE UNCHANGED <<visualizationStates, visualizations,
                        currentVisualization, messageToHighlight>>
    /\ UNCHANGED <<hasStoredVisualization, generations, generateCalls,
                   completionTimers, lastOutcome>>
    /\ UNCHANGED <<highlightTimers, highlighted>>
    /\ UNCHANGED notVizVars

\* ------------------------------------------------ MessageBubble
\* A message text is the sequence of its lines, a line being given by its
\* number of characters.
MaxLines == 6

LineLengths == {10, 60, 301}

BubbleTexts == { [i \in 1..n |-> l] : n \in 1..MaxLines, l \in LineLengths }

\* The thresholds of MessageBubble.
TruncateChars == 300

TruncateLines == 5

RECURSIVE SumLengths(_)
SumLengths(t) == IF t = <<>> THEN 0 ELSE Head(t) + SumLengths(Tail(t))

\* text.length: the characters of the lines and the newlines between them
TextLength(t) == SumLengths(t) + Len(t) - 1

\* text.substring(0, n) of a text that is longer than n, as lines: the
\* lines are taken while characters are left; a cut right after a newline
\* leaves an empty last line.
RECURSIVE Substring(_, _)
Substring(t, n) ==
    IF Head(t) >= n THEN << n >>
    ELSE << Head(t) >> \o Substring(Tail(t), n - Head(t) - 1)

\* s + '...'
AppendDots(t) == [t EXCEPT ![Len(t)] = @ + 3]

isLongMessage(b) == TextLength(b.text) > TruncateChars

displayText(b) ==
    IF isLongMessage(b) /\ ~b.isExpanded
    THEN AppendDots(Substring(b.text, TruncateChars))
    ELSE b.text

shouldShowMore(b) == Len(displayText(b)) > TruncateLines /\ ~b.isExpanded

finalText(b) ==
    IF shouldShowMore(b)
    THEN AppendDots(SubSeq(displayText(b), 1, TruncateLines))
    ELSE displayText(b)

\* The Show More / Show Less button is rendered.
ToggleOffered(b) == isLongMessage(b) \/ shouldShowMore(b)

InitNoBubbles == bubbles = <<>>

\* Two messages as they arrive: not expanded.
InitBubbles ==
    \E t1 \in BubbleTexts, t2 \in BubbleTexts :
        bubbles = << [id |-> 1, text |-> t1, isExpanded |-> FALSE],
                     [id |-> 2, text |-> t2, isExpanded |-> FALSE] >>

\* useChat.toggleMessageExpansion(messageId), called by the button of the
\* message.
ToggleMessageExpansion(id) ==
    /\ \E i \in DOMAIN bubbles : bubbles[i].id = id /\ ToggleOffered(bubbles[i])
    /\ bubbles' = [i \in DOMAIN bubbles |->
                     IF bubbles[i].id = id
                     THEN [bubbles[i] EXCEPT !.isExpanded = ~@]
                     ELSE bubbles[i]]
    /\ UNCHANGED <<chatMode, teamVars, privVars, vizVars, summaryVars, formatVars>>

\* ------------------------------------------------ the message formatters
\* A text is the sequence of its lines (text.split('\n'), never empty); a
\* line is a sequence of characters.
Sp == " "

Star == "*"

\* U+2022, the bullet character.
Bullet == "U+2022"

\* U+00E2 U+20AC U+00A2, the three characters of the literal GroupMessage
\* tests for.
MojibakeBullet == <<"U+00E2", "U+20AC", "U+00A2">>

MaxTextLines == 2

AssistantLines ==
    { <<>>,
      <<Sp>>,
      <<"a">>,
      <<Sp, "a", Sp>>,
      <<"1", ".", Sp, Star, Star, "a", Star, Star, ":", Sp, "b">>,
      <<"1", ".", Star, Star, Star, Star, ":">>,
      <<"1", ".", Star, Star, "a", Star, Star, "b">>,
      <<"1", ".", Sp, "a">>,
      <<"a", Star, Star, "b", Star, Star, "c">>,
      <<Star, Star, "a">>,
      <<Star, Star, "a", Star, Star, "b", Star, Star>>,
      <<Star, Star, Star>>,
      <<"-", Sp, "a">>,
      <<"-", Star, Star, "a", Star, Star>>,
      <<Bullet, Sp, "a">>,
      MojibakeBullet \o <<Sp, "a">> }

AssistantTexts ==
    UNION { [1..n -> AssistantLines] : n \in 1..MaxTextLines }

IsSpace(c) == c = Sp

IsDigit(c) == c \in {"0", "1", "2", "3", "4", "5", "6", "7", "8", "9"}

\* String.prototype.trim
RECURSIVE TrimStart(_)
TrimStart(l) ==
    IF l # <<>> /\ IsSpace(Head(l)) THEN TrimStart(Tail(l)) ELSE l

RECURSIVE TrimEnd(_)
TrimEnd(l) ==
    IF l # <<>> /\ IsSpace(l[Len(l)]) THEN TrimEnd(SubSeq(l, 1, Len(l) - 1))
    ELSE l

Trim(l) == TrimEnd(TrimStart(l))

Least(S) == CHOOSE x \in S : \A y \in S : x <= y

StartsWith(l, prefix) ==
    Len(l) >= Len(prefix) /\ SubSeq(l, 1, Len(prefix)) = prefix

\* "**" stands at position i of l.
StarsAt(l, i) == i >= 1 /\ i + 1 <= Len(l) /\ l[i] = Star /\ l[i + 1] = Star

\* (\d+): the length of the run of digits that starts at position i.
DigitRun(l, i) ==
    Least({ k \in 0..Len(l) :
              /\ \A j \in i..(i + k - 1) : j <= Len(l) /\ IsDigit(l[j])
              /\ (i + k > Len(l) \/ ~IsDigit(l[i + k])) })

\* \s*: the length of the run of white space that starts at position i.
SpaceRun(l, i) ==
    Least({ k \in 0..Len(l) :
              /\ \A j \in i..(i + k - 1) : j <= Len(l) /\ IsSpace(l[j])
              /\ (i + k > Len(l) \/ ~IsSpace(l[i + k])) })

\* trimmedLine.match(/^(\d+)\.\s*\*\*(.*?)\*\*:\s*(.*)$/): the digits, a
\* dot, optional spaces, "**", the shortest title that is followed by "**:",
\* optional spaces, the rest.
numberedListMatch(l) ==
    LET k      == DigitRun(l, 1)
        opening == k + 2 + SpaceRun(l, k + 2)
        closes == { j \in (opening + 2)..Len(l) :
                      StarsAt(l, j) /\ j + 2 <= Len(l) /\ l[j + 2] = ":" }
    IN  IF k >= 1 /\ k + 1 <= Len(l) /\ l[k + 1] = "."
           /\ StarsAt(l, opening) /\ closes # {}
        THEN LET j == Least(closes)
                 c == j + 3 + SpaceRun(l, j + 3)
             IN  [matched |-> TRUE,
                  number  |-> SubSeq(l, 1, k),
                  title   |-> SubSeq(l, opening + 2, j - 1),
                  content |-> SubSeq(l, c, Len(l))]
        ELSE [matched |-> FALSE, number |-> <<>>, title |-> <<>>,
              content |-> <<>>]

\* The positions from `from` on at which /\*\*(.*?)\*\*/ matches: a "**"
\* with another "**" after it.
BoldStarts(l, from) ==
    { i \in from..Len(l) :
        StarsAt(l, i) /\ \E j \in (i + 2)..Len(l) : StarsAt(l, j) }

\* boldRegex.test(trimmedLine)
boldRegexTest(l) == BoldStarts(l, 1) # {}

\* trimmedLine.split(boldRegex): the text between the matches and, the
\* expression having a group, the group of each match; the parts at odd
\* (zero-based) index are the bold ones.
RECURSIVE SplitBold(_, _)
SplitBold(l, from) ==
    IF BoldStarts(l, from) = {} THEN << SubSeq(l, from, Len(l)) >>
    ELSE LET i == Least(BoldStarts(l, from))
             j == Least({ j \in (i + 2)..Len(l) : StarsAt(l, j) })
         IN  << SubSeq(l, from, i - 1), SubSeq(l, i + 2, j - 1) >>
             \o SplitBold(l, j + 2)

\* The markers the bullet test of each component accepts.
BubbleBulletPrefixes == { <<Bullet>>, <<"-">> }

GroupBulletPrefixes == { MojibakeBullet, <<"-">> }

\* The body of lines.forEach: the element pushed for one line.
FormatLine(line, bulletPrefixes) ==
    LET trimmedLine == Trim(line)
        m == numberedListMatch(trimmedLine)
    IN  IF trimmedLine = <<>> THEN [kind |-> "br"]
        ELSE IF m.matched
        THEN [kind |-> "numbered", number |-> m.number, title |-> m.title,
              content |-> m.content]
        ELSE IF boldRegexTest(trimmedLine)
        THEN [kind |-> "rich", parts |-> SplitBold(trimmedLine, 1)]
        ELSE IF \E prefix \in bulletPrefixes : StartsWith(trimmedLine, prefix)
        THEN [kind |-> "bullet", text |-> Trim(Tail(trimmedLine))]
        ELSE [kind |-> "plain", text |-> trimmedLine]

\* MessageBubble
formatMessageText(text) ==
    [i \in DOMAIN text |-> FormatLine(text[i], BubbleBulletPrefixes)]

\* GroupMessage, isAstraMessage
formatMessageContent(text) ==
    [i \in DOMAIN text |-> FormatLine(text[i], GroupBulletPrefixes)]

NotRendered == <<>>

InitNoFormat ==
    /\ assistantText = << <<>> >>
    /\ bubbleBlocks = NotRendered
    /\ groupBlocks = NotRendered

InitFormat ==
    /\ assistantText \in AssistantTexts
    /\ bubbleBlocks = NotRendered
    /\ groupBlocks = NotRendered

\* MessageBubble renders the assistant message.
RenderBubble ==
    /\ bubbleBlocks' = formatMessageText(assistantText)
    /\ UNCHANGED <<assistantText, groupBlocks>>
    /\ UNCHANGED <<chatMode, teamVars, privVars, vizVars, bubbleVars,
                   summaryVars>>

\* GroupMessage renders the assistant message.
RenderGroup ==
    /\ groupBlocks' = formatMessageContent(assistantText)
    /\ UNCHANGED <<assistantText, bubbleBlocks>>
    /\ UNCHANGED <<chatMode, teamVars, privVars, vizVars, bubbleVars,
                   summaryVars>>

\* ------------------------------------------------ visualization: GroupChat
\* GroupChat.getVisualizationState: the local entry if there is one, else
\* the state made of the message's persisted visualization_data, else null.
\* In team chat hasStoredVisualization[m] says that message m carries
\* visualization_data.
getVisualizationState(m) ==
    IF visualizationStates[m].present THEN visualizationStates[m]
    ELSE IF hasStoredVisualization[m] THEN Settled("stored")
    ELSE NoState

\* GroupMessage: hasVisualization
GroupHasVisualization(m) ==
    hasStoredVisualization[m] \/ HasContent(getVisualizationState(m))

\* GroupMessage.getButtonText
GroupButtonText(m) ==
    IF getVisualizationState(m).isGenerating THEN "Generating..."
    ELSE IF GroupHasVisualization(m) THEN "View Visualization"
    ELSE "Create Visualization"

\* GroupChat render: the content handed to VisualizationView, "none" when
\* the message list is rendered instead.
TeamShownContent ==
    IF currentVisualization = NoMsg THEN "none"
    ELSE IF hasStoredVisualization[currentVisualization] THEN "stored"
    ELSE visualizations[currentVisualization].content

TeamViewShown == TeamShownContent # "none"

\* A click that reaches GroupChat.handleCreateVisualization: the main button
\* while the message has no visualization, or the Retry button.
TeamHandleCreateVisualization(m) ==
    /\ chatMode = "team"
    /\ ~TeamViewShown
    /\ ~getVisualizationState(m).isGenerating
    /\ generateCalls < MaxGenerateCalls
    /\ generateCalls' = generateCalls + 1
    /\ visualizationStates' = SetEntry(visualizationStates, m, Generating)
    /\ visualizations' = SetEntry(visualizations, m, Generating)
    /\ generations' = generations \cup {[m |-> m, n |-> generateCalls + 1]}
    /\ UNCHANGED <<hasStoredVisualization, currentVisualization,
                   messageToHighlight, completionTimers, viewFetches, lastOutcome>>
    /\ UNCHANGED <<highlightTimers, highlighted>>
    /\ UNCHANGED notVizVars

\* A click on the main button of a message that has a visualization:
\* GroupMessage.handleVisualizationClick calls GroupChat.handleViewVisualization
\* with the message's visualization_data. With data the local entry is set
\* from it and the visualization shown; without, it is shown if the hook
\* holds content.
TeamHandleViewVisualization(m) ==
    /\ chatMode = "team"
    /\ ~TeamViewShown
    /\ GroupButtonText(m) = "View Visualization"
    /\ IF hasStoredVisualization[m]
       THEN /\ visualizationStates' = SetEntry(visualizationStates, m,
                                                Settled("stored"))
            /\ ShowVisualization(m)
       ELSE /\ HasContent(visualizations[m])
            /\ ShowVisualization(m)
            /\ UNCHANGED visualizationStates
    /\ UNCHANGED <<hasStoredVisualization, generations, generateCalls,
                   completionTimers, viewFetches, lastOutcome>>
    /\ UNCHANGED <<highlightTimers, highlighted>>
    /\ UNCHANGED notVizVars

\* The Back button of the VisualizationView: useVisualization.hideVisualization.
HideVisualization ==
    /\ IF chatMode = "team" THEN TeamViewShown ELSE ViewShown
    /\ currentVisualization' = NoMsg
    /\ highlightTimers' = IF messageToHighlight # NoMsg
                          THEN highlightTimers \cup {messageToHighlight}
                          ELSE highlightTimers
    /\ UNCHANGED <<hasStoredVisualization, visualizations, messageToHighlight,
                   visualizationStates, generations, generateCalls,
                   completionTimers, viewFetches, lastOutcome, highlighted>>
    /\ UNCHANGED notVizVars

\* The id attribute of the element rendered for message m:
\* `message-${message.id}`. ChatContainer renders UI messages whose id is
\* `${chatId}-astra` (useChat), GroupChat renders the stored rows, whose id
\* is the message id itself.
MessageElementId(m) ==
    IF chatMode = "team" THEN <<"message", m>> ELSE <<"message", m, "astra">>

\* document.getElementById(`message-${key}`) over the rendered message list:
\* the messages whose element has that id; none while the view replaces
\* the list.
GetElementById(key) ==
    IF (IF chatMode = "team" THEN TeamViewShown ELSE ViewShown) THEN {}
    ELSE { m \in VizMsgs : MessageElementId(m) = <<"message", key>> }

\* The timer hideVisualization set (100 ms): the element found for the
\* captured messageToHighlight gets the class message-highlight.
HighlightTimerFires(k) ==
    /\ k \in highlightTimers
    /\ highlightTimers' = highlightTimers \ {k}
    /\ highlighted' = highlighted \cup GetElementById(k)
    /\ UNCHANGED <<hasStoredVisualization, visualizations, currentVisualization,
                   messageToHighlight, visualizationStates, generations,
                   generateCalls, completionTimers, viewFetches, lastOutcome>>
    /\ UNCHANGED notVizVars

\* The timer set with the highlight (3 s) removes the class again.
HighlightExpires(m) ==
    /\ m \in highlighted
    /\ highlighted' = highlighted \ {m}
    /\ UNCHANGED <<hasStoredVisualization, visualizations, currentVisualization,
                   messageToHighlight, visualizationStates, generations,
                   generateCalls, completionTimers, viewFetches, lastOutcome,
                   highlightTimers>>
    /\ UNCHANGED notVizVars


\* =================================================================== claims
\* ---- team chat
TeamQuiescent == fetches = <<>> /\ teamSends = <<>> /\ pushQ = {}

TimesInList(list, id) == Cardinality({i \in DOMAIN list : list[i].id = id})

\* The most recent `limit` rows, ascending.
MostRecent(db, limit) ==
    SubSeq(db, Len(db) - Min(limit, Len(db)) + 1, Len(db))

\* fetch i is served successfully in this step / resolves in this step
ServedNow(i) ==
    /\ i \in DOMAIN fetches /\ ~fetches[i].served
    /\ Len(fetches') = Len(fetches) /\ fetches'[i].served /\ fetches'[i].ok

ResolvedNow(i) ==
    /\ i \in DOMAIN fetches /\ fetches[i].served
    /\ fetches' = RemoveAt(fetches, i)

\* C1: once every pending call has completed (no load failed, and the log is
\* short enough for one load to return all of it), every persisted team
\* message appears exactly once in the in-memory list.
C1_EveryPersistedOnce ==
    (TeamQuiescent /\ gError = "none" /\ Len(teamDb) <= FetchLimit)
        => \A k \in DOMAIN teamDb : TimesInList(gMessages, teamDb[k].id) = 1

\* C2: no two entries of the team list have the same persisted id; a push for
\* an id already in the list leaves the list unchanged and a push for a new
\* id appends exactly that record.
NoDuplicateIds == \A i, j \in DOMAIN gMessages :
    gMessages[i].id = gMessages[j].id => i = j

PushStepEffect == \A r \in pushQ :
    (pushQ' = pushQ \ {r}) =>
        IF r.id \in IdsOf(gMessages)
        THEN gMessages' = gMessages
        ELSE gMessages' = Append(gMessages, r)

C2_NoDuplicateIds == [](NoDuplicateIds) /\ [][PushStepEffect]_vars

\* C2 witness: a push was delivered for a record a history load had already
\* put in the list, every push has been delivered, and the list holds two
\* or more records.
C2_Witness ==
    /\ pushIgnored
    /\ Len(gMessages) >= 2
    /\ pushQ = {}
    /\ fetches = <<>>

\* C7: the displayed team list is in non-decreasing timestamp order.
C7_SortedByTimestamp == \A i, j \in DOMAIN gMessages :
    i < j => gMessages[i].created_at <= gMessages[j].created_at

\* C8: a load returns the `limit` most recent persisted team records,
\* ascending, and the list is replaced by exactly what the load returned.
C8_LoadsMostRecent == [][\A i \in 1..MaxFetches :
    /\ ServedNow(i) => fetches'[i].snap = MostRecent(teamDb, FetchLimit)
    /\ (ResolvedNow(i) /\ fetches[i].ok) => gMessages' = fetches[i].snap]_vars

Shown(kind, s) == \E i \in DOMAIN messages :
    messages[i].kind = kind /\ messages[i].send = s

\* C4: in private chat a displayed user message stays in the displayed list
\* in every later state while the same conversation stays active.
C4_UserMessageStays == [][\A s \in 1..MaxPrivateSends :
    (/\ Shown("user", s)
     /\ currentConversationId' = currentConversationId
     /\ loads = <<>> /\ loads' = <<>>) => Shown("user", s)']_vars

\* An insert of logChatMessage settles in this step, in a send one of whose
\* two inserts has failed or fails now.
FailedPersistStep ==
    /\ pSend.pc \in {"logUser", "logAstra"}
    /\ pSend' # pSend
    /\ \/ privDb' = privDb
       \/ pSend.pc = "logAstra" /\ ~pSend.userLogged

\* C5: when persisting the user or the assistant message of a private send
\* fails after both are displayed, both stay displayed, no error message is
\* added and the loading indicator is cleared when the send ends, also when
\* only one of the two persistence calls fails.
C5_PersistFailureInvisible == [][\A s \in {pSend.send} : FailedPersistStep =>
    /\ Shown("user", s) => Shown("user", s)'
    /\ Shown("astra", s) => Shown("astra", s)'
    /\ ~Shown("error", s)'
    /\ pSend'.pc = "idle" => ~isLoading']_vars

\* The apology logging of team send i settles in this step.
ApologySettles(i) ==
    /\ i \in DOMAIN teamSends
    /\ teamSends[i].pc = "logError"
    /\ Len(teamSends') < Len(teamSends)

\* C6: a failed webhook call of an accepted send adds exactly one
\* assistant-authored error message for that send - in team mode one
\* persisted assistant record - and no assistant answer.
C6_OneErrorMessage == [][\A i \in 1..MaxTeamSends : ApologySettles(i) =>
    /\ Len(teamDb') = Len(teamDb) + 1
    /\ teamDb'[Len(teamDb')].type = "astra"
    /\ teamDb'[Len(teamDb')].isErr]_vars

\* The private half of C6: the failed webhook call appends one error
\* message and nothing else to the displayed list.
PrivateWebhookFailureAppendsOneError ==
    [][\A s \in {pSend.send} : (pSend.pc = "webhook" /\ pSend'.pc = "idle") =>
        /\ messages' = Append(messages, Optimistic("error", s))
        /\ ~Shown("error", s)
        /\ ~Shown("astra", s)'
        /\ ~isLoading']_vars

\* loadConversation i fails in this step.
LoadFailsNow(i) ==
    /\ i \in DOMAIN loads
    /\ loads[i].served
    /\ loads[i].outcome # "data"
    /\ Len(loads') < Len(loads)

IsPrefix(s, t) == Len(s) <= Len(t) /\ \A k \in DOMAIN s : s[k] = t[k]

\* C9: a failed history load sets an error state and leaves the in-memory
\* list what it was before the call: the failing call changes nothing in
\* the list, and everything the list held before the call is still there
\* (rows a send appended meanwhile come after it).
C9_FailedLoadKeepsList == [][\A i \in 1..MaxLoads : LoadFailsNow(i) =>
    /\ chatsError' # "none"
    /\ currentMessages' = currentMessages
    /\ IsPrefix(loads[i].before, currentMessages')]_vars

\* The team half of C9: a failed fetchMessages sets the error and leaves
\* the list alone.
TeamFailedFetchKeepsList ==
    [][\A i \in 1..MaxFetches : (ResolvedNow(i) /\ ~fetches[i].ok) =>
        gError' # "none" /\ gMessages' = gMessages]_vars


InFlight(m) == {g \in generations : g.m = m}

\* C3: a visualization requested again for a message while a generation
\* for it is in flight is a no-op: at most one generation call per message
\* is in flight.
C3_OneGenerationInFlight == \A m \in VizMsgs : Cardinality(InFlight(m)) <= 1

\* The latest generation of m failed and nothing of it is still pending.
FailedAndSettled(m) ==
    /\ lastOutcome[m] = "failed"
    /\ InFlight(m) = {}
    /\ {t \in completionTimers : t.m = m} = {}
    /\ m \notin viewFetches

\* C10: after a failed generation the state of the message is an error
\* state distinguishable from ready: not generating, no content stored as
\* ready content, and the button does not read "View Visualization".
C10_FailureIsNotReady == \A m \in VizMsgs : FailedAndSettled(m) =>
    /\ ~visualizations[m].isGenerating
    /\ ~getLocalVisualizationState(m).isGenerating
    /\ ~HasContent(visualizations[m])
    /\ ButtonText(getLocalVisualizationState(m)) # "View Visualization"


\* C11: for a team message with both session-local visualization state and
\* persisted visualization data the session-local state decides the
\* reported status and the content shown on viewing (after a retry the
\* newly generated content); persisted data counts only without local
\* state, and the message is without visualization only when neither exists.
C11_LocalStateFirst == \A m \in VizMsgs :
    /\ visualizationStates[m].present =>
          GroupButtonText(m) = ButtonText(visualizationStates[m])
    /\ (hasStoredVisualization[m] /\ lastOutcome[m] = "ok" /\ InFlight(m) = {}
          /\ currentVisualization = m /\ TeamViewShown)
          => TeamShownContent = "html"
    /\ GroupButtonText(m) = "Create Visualization"
          <=> (~visualizationStates[m].present /\ ~hasStoredVisualization[m])


\* C12: in private chat an assistant message loaded from history whose
\* persisted visualization flag is set, and which has no session-local
\* state, is reported as ready: its button reads "View Visualization".
C12_StoredFlagMeansReady == \A m \in VizMsgs :
    (hasStoredVisualization[m] /\ ~visualizationStates[m].present)
        => ButtonText(getLocalVisualizationState(m)) = "View Visualization"


\* The other ids' entries are what they were.
OthersUntouched(m) == \A k \in VizMsgs \ {m} :
    /\ visualizations'[k] = visualizations[k]
    /\ visualizationStates'[k] = visualizationStates[k]

\* C13: generations for different message ids may be in flight together
\* and settle in either order; a settling call stores its own content under
\* its own id, and starting or settling a generation never changes another
\* id's state.
C13_AttributedByMessageId == [][
    /\ \A g \in generations' \ generations : OthersUntouched(g.m)
    /\ \A g \in generations \ generations' :
          /\ OthersUntouched(g.m)
          /\ visualizations'[g.m].call = g.n
          /\ HasContent(visualizations'[g.m])
          /\ ~visualizations'[g.m].isGenerating]_vars

\* C13 witness: the call for message 2 started after the call for message 1
\* and has settled with its own content while the call for message 1 is
\* still in flight.
C13_Witness ==
    /\ [m |-> 1, n |-> 1] \in generations
    /\ visualizations[1].isGenerating
    /\ visualizations[2].call = 2
    /\ visualizations[2].content = "html"


\* The ids of the user messages sendMessage has appended and that are
\* still in the list.
OptimisticUsers(msgs) ==
    {msgs[i].id : i \in {j \in DOMAIN msgs :
                           msgs[j].kind = "user" /\ msgs[j].id.src = "opt"}}

\* C14: private sendMessage does nothing - no message appended, the input
\* box not cleared, no webhook call - for a blank text and while a private
\* send is in flight; so at most one private webhook request is in flight.
C14_PrivateSendGuard ==
    /\ [](pWebhooks <= 1)
    /\ [][(IsBlankText(inputValue) \/ isLoading) =>
            /\ sendCount' = sendCount
            /\ pWebhooks' <= pWebhooks
            /\ OptimisticUsers(messages') \subseteq OptimisticUsers(messages)
            /\ pSend'.send = pSend.send \/ pSend'.pc = "idle"]_vars

\* C14 witness: a send is waiting for the webhook and the user has typed
\* the next text into the box.
C14_Witness ==
    /\ isLoading
    /\ pSend.pc = "webhook"
    /\ pWebhooks = 1
    /\ ~IsBlankText(inputValue)


\* C15: a team send is refused while a prior team send of this session is
\* still in flight, so at most one team send (persist plus optional
\* assistant request, up to its closing refresh) is in progress at any time.
C15_OneTeamSendInFlight == Len(teamSends) <= 1

\* The team sends that have set the "Astra is thinking" flag and not yet
\* reached their finally block.
ThinkingSends == { i \in DOMAIN teamSends :
    teamSends[i].pc \in {"webhook", "logAstra", "logError"} }

C17_ShownHasContent == currentVisualization # NoMsg => ViewShown

\* C18: a message's isVisible is true only if it is the current
\* visualization; so after hideVisualization (currentVisualization null) no
\* entry has isVisible = true, and at most one entry is visible.
C18_VisibleOnlyIfCurrent == \A m \in VizMsgs :
    visualizations[m].isVisible => currentVisualization = m

\* C19: when the timer of a hideVisualization fires over the rendered
\* message list, the element that gets the highlight is the one of the
\* originating message (the message whose visualization was shown), and of
\* no other message.
C19_HighlightsOriginatingMessage ==
    [][\A k \in highlightTimers \ highlightTimers' :
          (currentVisualization = NoMsg) =>
              highlighted' \ highlighted \subseteq {k} /\ k \in highlighted']_vars

\* A handle in lower case.
LowerCase(h) == IF h \in {"Astra", "ASTRA"} THEN "astra" ELSE h

\* C20: a team message invokes the assistant if and only if one of its
\* mentions equals the reserved handle "astra" compared case-insensitively
\* (so @Astra invokes it), the mention list handed to the store keeping
\* each handle in its original case.
C20_MentionIgnoresCase ==
    [][Len(teamSends') = Len(teamSends) + 1 =>
          LET snd == teamSends'[Len(teamSends')]
          IN  snd.astra <=> \E i \in DOMAIN snd.mentions :
                                LowerCase(snd.mentions[i]) = "astra"]_vars

\* C21: on a successful webhook response the assistant message text is the
\* value of the `output` field whenever the body parses as a JSON object
\* that has one (an empty value included), and the raw body in every other
\* case; a send whose response was read goes on to persist it.
C21_TextFromOutputOrRaw ==
    pSend.responseText # NoBody =>
        /\ pSend.pc \in {"logUser", "refreshUser", "logAstra", "refreshAstra"}
        /\ pSend.messageText =
              IF pSend.responseText.parsed = "object" /\ pSend.responseText.hasOutput
              THEN pSend.responseText.output
              ELSE pSend.responseText.raw

\* What the caller of searchMessages can observe of a search that settled.
SearchObservable == <<searchResults, gError, isSearching>>

\* C22: when searchMessages fails the caller receives an outcome that a
\* successful search without results does not produce, and the in-memory
\* team message list is unchanged.
C22_SearchFailureDistinguishable ==
    [][\A q \in searches :
          SearchSettles(q, FALSE) =>
              /\ gMessages' = gMessages
              /\ SearchObservable' # << <<>>, gError, FALSE >>]_vars

\* C23: a delete requested without the administrator flag sends no delete
\* to the store and leaves the list unchanged; a failed delete leaves the
\* list unchanged; and a message leaves the list only after a delete of it
\* succeeded, that is, only when its row is no longer stored.
C23_LeavesListOnlyWhenDeleted ==
    [][/\ ~isCurrentUserAdmin => deletes' \subseteq deletes
       /\ IdsOf(teamDb) \ IdsOf(teamDb') \subseteq deletes \ deletes'
       /\ deletes' # deletes => gMessages' = gMessages
       /\ IdsOf(gMessages) \ IdsOf(gMessages') \subseteq
              IdsOf(gMessages) \ IdsOf(teamDb')]_vars

\* No call of the private chat is pending.
PrivateQuiescent ==
    /\ pSend.pc = "idle"
    /\ loads = <<>>
    /\ ~chatsLoading

\* C24: in private chat, whenever no call is pending, the loaded message
\* list contains only records of the active conversation: a late response
\* or late persisted record of an operation started under an earlier
\* conversation is not put into the newly active conversation's list.
C24_OnlyActiveConversation ==
    PrivateQuiescent =>
        \A i \in DOMAIN currentMessages :
            currentMessages[i].conv = currentConversationId

\* C25: the highlight mark set by showVisualization is transient: once the
\* visualization is hidden again, messageToHighlight is eventually cleared
\* (so that the auto-scroll effects, which skip scrolling while a message
\* is marked, resume).
C25_HighlightEventuallyCleared ==
    (currentVisualization = NoMsg /\ messageToHighlight # NoMsg)
        ~> (messageToHighlight = NoMsg)

\* A text exceeds a truncation threshold.
ExceedsThreshold(t) == TextLength(t) > TruncateChars \/ Len(t) > TruncateLines

\* C26: for a message exceeding a truncation threshold the Show More/Less
\* toggle is offered collapsed and expanded alike; a toggle changes only
\* that message's expansion flag, never a text; a collapsed message is
\* displayed truncated.
C26_ToggleAlwaysOffered ==
    /\ [](\A i \in DOMAIN bubbles :
            ExceedsThreshold(bubbles[i].text) =>
                /\ ToggleOffered(bubbles[i])
                /\ ~bubbles[i].isExpanded => finalText(bubbles[i]) # bubbles[i].text)
    /\ [][\A i \in DOMAIN bubbles :
            /\ bubbles'[i].text = bubbles[i].text
            /\ \A j \in DOMAIN bubbles :
                  (bubbles'[i].isExpanded # bubbles[i].isExpanded /\ j # i)
                      => bubbles'[j] = bubbles[j]]_vars

\* C27: whatever way a loadConversation call completes (data, an error
\* result of the store, an exception), the loading flag of the conversation
\* store is eventually false again.
C27_LoadingEventuallyFalse == chatsLoading ~> ~chatsLoading

\* C28: once every search request has completed, the displayed results are
\* results of the query entered last (every listed row matches it), in
\* whatever order the responses arrived; with the query cleared the
\* results are empty.
C28_ResultsOfLatestQuery ==
    searches = {} =>
        \A i \in DOMAIN searchResults : Matches(searchResults[i], searchQuery)


\* The conversation id a persisted private row is stored under.
ConversationOfRow(id) ==
    LET r == CHOOSE r \in {privDb[i] : i \in DOMAIN privDb} : r.id = id
    IN  r.conv

\* C29: when a team-chat summary is written into private chat, the summary
\* request row and the summary response row are persisted under the same
\* conversation id, and the conversation id handed to
\* onSwitchToPrivateChat is exactly that id.
C29_SummaryInOneConversation ==
    (summary.requestRow # 0 /\ summary.responseRow # 0) =>
        /\ ConversationOfRow(summary.requestRow)
              = ConversationOfRow(summary.responseRow)
        /\ switchedTo # NoConv =>
              switchedTo = ConversationOfRow(summary.requestRow)


\* The kind of block the rules give a trimmed line: blank, numbered callout,
\* bold rich text, bullet (a line starting with the bullet character or a
\* dash), plain text; the first rule that matches.
RuleKind(l) ==
    IF l = <<>> THEN "br"
    ELSE IF numberedListMatch(l).matched THEN "numbered"
    ELSE IF boldRegexTest(l) THEN "rich"
    ELSE IF l[1] \in {Bullet, "-"} THEN "bullet"
    ELSE "plain"

\* An unpaired "**" is in the output as it is in the line: the characters
\* of the block are those of the trimmed line without the paired markers.
RECURSIVE Flatten(_)
Flatten(parts) ==
    IF parts = <<>> THEN <<>> ELSE Head(parts) \o Flatten(Tail(parts))

RECURSIVE PairedStars(_, _)
PairedStars(l, from) ==
    IF BoldStarts(l, from) = {} THEN 0
    ELSE LET i == Least(BoldStarts(l, from))
             j == Least({ j \in (i + 2)..Len(l) : StarsAt(l, j) })
         IN  4 + PairedStars(l, j + 2)

FollowsRules(blocks) ==
    blocks # NotRendered =>
        /\ Len(blocks) = Len(assistantText)
        /\ Len(blocks) >= 1
        /\ \A i \in DOMAIN blocks :
              LET l == Trim(assistantText[i])
              IN  /\ blocks[i].kind = RuleKind(l)
                  /\ blocks[i].kind = "plain" => blocks[i].text = l
                  /\ blocks[i].kind = "rich" =>
                        Len(Flatten(blocks[i].parts))
                           = Len(l) - PairedStars(l, 1)

BubbleFollowsRules == FollowsRules(bubbleBlocks)

GroupFollowsRules == FollowsRules(groupBlocks)

\* C30: formatting an assistant text yields exactly one block per input
\* line (hence at least one), each block chosen by the first matching rule
\* in the order blank, numbered callout, bold rich text, bullet, plain text;
\* a line matching no special rule, or with unpaired bold markers, keeps its
\* text literally; and formatting the same input again yields the same
\* block sequence. This in both components that format assistant text.
C30_OneBlockPerLineByFirstRule ==
    /\ [](BubbleFollowsRules /\ GroupFollowsRules)
    /\ [][ /\ bubbleBlocks # NotRendered => bubbleBlocks' = bubbleBlocks
           /\ groupBlocks # NotRendered => groupBlocks' = groupBlocks ]_vars


\* ------------------------------------------------------------------- spec
InitTeam ==
    /\ \E k \in 0..MaxInitRecords :
          /\ teamDb = [i \in 1..k |-> Row(i, "user", FALSE)]
          /\ nextId = k + 1
    /\ pushQ = {}
    /\ gMessages = <<>>
    /\ gLoading = TRUE
    /\ gError = "none"
    /\ isAstraThinking = FALSE
    /\ fetches = IssueFetch(<<>>)
    /\ teamSends = <<>>
    /\ pushIgnored = FALSE
    /\ InitSearch
    /\ InitDelete(TRUE)

\* ChatContainer mounted: the useChats effect has called fetchConversations
\* and createNewConversation, and - the id having changed - fetchConversations
\* once more. Conversation 1 is in the history with two rows.
InitPriv ==
    /\ privDb = <<PrivRow(1, 1, TRUE, 0), PrivRow(2, 1, FALSE, 0)>>
    /\ pNextId = 3
    /\ currentConversationId = 2
    /\ nextConv = 3
    /\ currentMessages = <<>>
    /\ chatsLoading = TRUE
    /\ chatsError = "none"
    /\ convFetches = 2
    /\ loads = <<>>
    /\ messages = <<Welcome>>
    /\ isLoading = FALSE
    /\ inputValue = <<>>
    /\ pSend = IdleSend
    /\ pWebhooks = 0
    /\ sendCount = 0

\* No visualization requested yet; which messages are flagged as having a
\* stored visualization is given by `stored`.
InitViz(stored) ==
    /\ hasStoredVisualization = stored
    /\ visualizations = [m \in VizMsgs |-> NoState]
    /\ currentVisualization = NoMsg
    /\ messageToHighlight = NoMsg
    /\ visualizationStates = [m \in VizMsgs |-> NoState]
    /\ generations = {}
    /\ generateCalls = 0
    /\ completionTimers = {}
    /\ viewFetches = {}
    /\ lastOutcome = [m \in VizMsgs |-> "none"]
    /\ highlightTimers = {}
    /\ highlighted = {}

InitTeamMode ==
    /\ chatMode = "team"
    /\ InitTeam
    /\ InitPriv
    /\ InitViz([m \in VizMsgs |-> FALSE])
    /\ InitNoBubbles
    /\ InitSummary
    /\ InitNoFormat

\* GroupChat is not mounted: its hook has issued nothing.
InitTeamUnmounted ==
    /\ teamDb = <<>>
    /\ nextId = 1
    /\ pushQ = {}
    /\ gMessages = <<>>
    /\ gLoading = FALSE
    /\ gError = "none"
    /\ isAstraThinking = FALSE
    /\ fetches = <<>>
    /\ teamSends = <<>>
    /\ pushIgnored = FALSE
    /\ InitSearch
    /\ InitDelete(FALSE)

InitPrivateMode ==
    /\ chatMode = "private"
    /\ InitTeamUnmounted
    /\ InitPriv
    /\ InitViz([m \in VizMsgs |-> FALSE])
    /\ InitNoBubbles
    /\ InitSummary
    /\ InitNoFormat

\* ChatContainer showing a loaded conversation whose assistant messages may
\* be flagged in the store as having a visualization.
InitVizMode ==
    /\ chatMode = "private"
    /\ InitTeamUnmounted
    /\ InitPriv
    /\ \E stored \in [VizMsgs -> BOOLEAN] : InitViz(stored)
    /\ InitNoBubbles
    /\ InitSummary
    /\ InitNoFormat

NextViz ==
    \/ \E m \in VizMsgs : HandleCreateVisualization(m)
    \/ \E g \in generations, ok \in BOOLEAN : GenerationSettles(g, ok)
    \/ \E t \in completionTimers : CompletionTimerFires(t)
    \/ \E m \in VizMsgs : HandleViewVisualization(m)
    \/ \E m \in VizMsgs, hasData \in BOOLEAN : ViewFetchSettles(m, hasData)
    \/ HideVisualization
    \/ \E k \in VizMsgs : HighlightTimerFires(k)

SpecViz == InitVizMode /\ [][NextViz]_vars

\* The private chat showing two messages whose expansion is toggled.
InitBubbleMode ==
    /\ chatMode = "private"
    /\ InitTeamUnmounted
    /\ InitPriv
    /\ InitViz([m \in VizMsgs |-> FALSE])
    /\ InitBubbles
    /\ InitSummary
    /\ InitNoFormat

NextBubble == \E id \in 1..2 : ToggleMessageExpansion(id)

SpecBubble == InitBubbleMode /\ [][NextBubble]_vars

\* The same with every pending call and timer settling sooner or later.
SpecVizFair ==
    /\ SpecViz
    /\ WF_vars(\E g \in generations, ok \in BOOLEAN : GenerationSettles(g, ok))
    /\ WF_vars(\E t \in completionTimers : CompletionTimerFires(t))
    /\ WF_vars(\E m \in VizMsgs, hasData \in BOOLEAN : ViewFetchSettles(m, hasData))
    /\ WF_vars(\E k \in VizMsgs : HighlightTimerFires(k))

\* GroupChat showing the loaded team log, nothing in flight.
InitTeamIdle ==
    /\ teamDb = <<>>
    /\ nextId = 1
    /\ pushQ = {}
    /\ gMessages = <<>>
    /\ gLoading = FALSE
    /\ gError = "none"
    /\ isAstraThinking = FALSE
    /\ fetches = <<>>
    /\ teamSends = <<>>
    /\ pushIgnored = FALSE
    /\ InitSearch
    /\ InitDelete(FALSE)

\* GroupChat showing assistant messages some of which carry persisted
\* visualization_data.
InitVizTeamMode ==
    /\ chatMode = "team"
    /\ InitTeamIdle
    /\ InitPriv
    /\ \E stored \in [VizMsgs -> BOOLEAN] : InitViz(stored)
    /\ InitNoBubbles
    /\ InitSummary
    /\ InitNoFormat

NextVizTeam ==
    \/ \E m \in VizMsgs : TeamHandleCreateVisualization(m)
    \/ \E g \in generations, ok \in BOOLEAN : GenerationSettles(g, ok)
    \/ \E t \in completionTimers : CompletionTimerFires(t)
    \/ \E m \in VizMsgs : TeamHandleViewVisualization(m)
    \/ HideVisualization
    \/ \E k \in VizMsgs : HighlightTimerFires(k)
    \/ \E m \in VizMsgs : HighlightExpires(m)

SpecVizTeam == InitVizTeamMode /\ [][NextVizTeam]_vars

\* The private chat with its input box: typing, submitting, and the calls
\* of a send.
NextPrivateInput ==
    \/ \E text \in Texts : TypeInput(text)
    \/ PrivSubmit
    \/ \E ok \in BOOLEAN, body \in Bodies : PrivWebhook(ok, body)
    \/ \E ok \in BOOLEAN : PrivLogInsert(ok)
    \/ PrivLogRefreshed
    \/ \E ok \in BOOLEAN : ConvFetchDone(ok)

SpecPrivateInput == InitPrivateMode /\ [][NextPrivateInput]_vars

\* The private chat with its conversations: sends, loads and new
\* conversations, none of which looks at the text of an answer (the body of
\* every answer is plain text here).
NextPrivate ==
    \/ \E ok \in BOOLEAN : ConvFetchDone(ok)
    \/ \E text \in Texts : PrivSendStart(text)
    \/ \E ok \in BOOLEAN : PrivWebhook(ok, PlainBody)
    \/ \E ok \in BOOLEAN : PrivLogInsert(ok)
    \/ PrivLogRefreshed
    \/ StartNewConversation
    \/ \E c \in 1..MaxConvs : LoadConversation(c)
    \/ \E i \in 1..MaxLoads, o \in {"data", "error", "throw"} : LoadServe(i, o)
    \/ \E i \in 1..MaxLoads : LoadResolve(i)

SpecPrivate == InitPrivateMode /\ [][NextPrivate]_vars

\* The conversation store with conversations loaded and started, every
\* query settling sooner or later.
NextLoad ==
    \/ \E ok \in BOOLEAN : ConvFetchDone(ok)
    \/ StartNewConversation
    \/ \E c \in 1..MaxConvs : LoadConversation(c)
    \/ \E i \in 1..MaxLoads, o \in {"data", "error", "throw"} : LoadServe(i, o)
    \/ \E i \in 1..MaxLoads : LoadResolve(i)

SpecLoadFair ==
    /\ InitPrivateMode
    /\ [][NextLoad]_vars
    /\ WF_vars(\E ok \in BOOLEAN : ConvFetchDone(ok))
    /\ WF_vars(\E i \in 1..MaxLoads, o \in {"data", "error", "throw"} : LoadServe(i, o))
    /\ WF_vars(\E i \in 1..MaxLoads : LoadResolve(i))

NextTeam ==
    \/ \E i \in 1..MaxFetches, ok \in BOOLEAN : FetchServe(i, ok)
    \/ \E i \in 1..MaxFetches : FetchResolve(i)
    \/ \E r \in pushQ : PushDeliver(r)
    \/ OtherInsert
    \/ \E content \in Texts : TeamSendStart(content)
    \/ \E i \in 1..MaxTeamSends, ok \in BOOLEAN : TeamLogUser(i, ok)
    \/ \E i \in 1..MaxTeamSends, ok \in BOOLEAN, body \in Bodies :
                  TeamWebhook(i, ok, body)
    \/ \E i \in 1..MaxTeamSends, ok \in BOOLEAN : TeamLogAstra(i, ok)

SpecTeam == InitTeamMode /\ [][NextTeam]_vars

\* The team chat with its search panel, while the team log is loaded and
\* grows through other sessions.
NextTeamSearch ==
    \/ \E q \in Queries : HandleSearch(q)
    \/ \E q \in Queries, ok \in BOOLEAN : SearchSettles(q, ok)
    \/ \E i \in 1..MaxFetches, ok \in BOOLEAN : FetchServe(i, ok)
    \/ \E i \in 1..MaxFetches : FetchResolve(i)
    \/ \E r \in pushQ : PushDeliver(r)
    \/ OtherInsert

SpecTeamSearch == InitTeamMode /\ [][NextTeamSearch]_vars

\* The team chat of a user who may be an administrator: the team log is
\* loaded, grows through other sessions, and messages are deleted.
NextTeamDelete ==
    \/ \E isAdmin \in BOOLEAN : UsersLoaded(isAdmin)
    \/ \E id \in 1..MaxRecords : HandleDeleteMessage(id)
    \/ \E id \in 1..MaxRecords, ok \in BOOLEAN : DeleteSettles(id, ok)
    \/ \E i \in 1..MaxFetches, ok \in BOOLEAN : FetchServe(i, ok)
    \/ \E i \in 1..MaxFetches : FetchResolve(i)
    \/ \E r \in pushQ : PushDeliver(r)
    \/ OtherInsert

SpecTeamDelete == InitTeamMode /\ [][NextTeamDelete]_vars

\* The team chat with its summary button, while the team log is loaded and
\* grows through other sessions.
NextSummary ==
    \/ HandleSummaryRequest
    \/ \E ok \in BOOLEAN : SummaryFetched(ok)
    \/ \E ok \in BOOLEAN : SummaryGenerated(ok)
    \/ \E ok \in BOOLEAN : SummaryLogInsert(ok)
    \/ SummaryLogRefreshed
    \/ \E ok \in BOOLEAN : SummaryChatsFetchDone(ok)
    \/ \E i \in 1..MaxFetches, ok \in BOOLEAN : FetchServe(i, ok)
    \/ \E i \in 1..MaxFetches : FetchResolve(i)
    \/ \E r \in pushQ : PushDeliver(r)
    \/ OtherInsert

SpecSummary == InitTeamMode /\ [][NextSummary]_vars

\* An assistant message shown by both components, each rendering it any
\* number of times.
InitFormatMode ==
    /\ chatMode = "private"
    /\ InitTeamUnmounted
    /\ InitPriv
    /\ InitViz([m \in VizMsgs |-> FALSE])
    /\ InitNoBubbles
    /\ InitSummary
    /\ InitFormat

NextFormat ==
    \/ RenderBubble
    \/ RenderGroup

SpecFormat == InitFormatMode /\ [][NextFormat]_vars

\* Either chat with every call of a send settling sooner or later: the
\* webhook fetch and the store calls resolve or reject, and the refreshes
\* of the team log complete. The return of the assistant's logChatMessage
\* is strongly fair: the call settles whatever refreshes are in flight, and
\* only the cap on refreshes in flight can disable the step for a while.
InitBusy == InitPrivateMode \/ InitTeamMode

NextBusy == NextPrivateInput \/ NextTeam

SpecBusyFair ==
    /\ InitBusy
    /\ [][NextBusy]_vars
    /\ WF_vars(\E ok \in BOOLEAN, body \in Bodies : PrivWebhook(ok, body))
    /\ WF_vars(\E ok \in BOOLEAN : PrivLogInsert(ok))
    /\ WF_vars(PrivLogRefreshed)
    /\ WF_vars(\E i \in 1..MaxFetches, ok \in BOOLEAN : FetchServe(i, ok))
    /\ WF_vars(\E i \in 1..MaxFetches : FetchResolve(i))
    /\ WF_vars(\E i \in 1..MaxTeamSends, ok \in BOOLEAN, body \in Bodies :
                  TeamWebhook(i, ok, body))
    /\ SF_vars(\E i \in 1..MaxTeamSends, ok \in BOOLEAN : TeamLogAstra(i, ok))

====
